---- MODULE Spec2Model ----
(***************************************************************************)
(* A model of emdofi (src/emdofi/core.py): scheme_builder, CensoredDomain, *)
(* SingleDomain and DomainFinder.                                          *)
(*                                                                         *)
(* A Python str is a sequence of one-character strings; a dict keyed by    *)
(* position is a function on a set of 0-based indices; an exception is the *)
(* name of its class.                                                      *)
(***************************************************************************)
EXTENDS Integers, Sequences, FiniteSets, TLC

VARIABLES
    pc,       \* where the scenario stands
    sd,       \* the SingleDomain under construction / comparison
    cd,       \* the CensoredDomain compared against it (match's query)
    ret,      \* what the last call returned or raised
    op,       \* the last operation of DomainFinder that ran
    args,     \* the arguments the DomainFinder was constructed with
    finder,   \* the fields of the DomainFinder instance
    exc,      \* what constructing the DomainFinder raised ("none": it returned)
    loadMode, \* how loads read its content: "json" or "lines"
    lastSet,  \* the censoring_chars the last change_censoring_chars call set
    full,     \* match's full argument
    results,  \* gather's list of results, one slot per coroutine
    reordered \* whether a coroutine of the last gather ran before an earlier one

finderVars == <<op, args, finder, exc, loadMode, lastSet, full, results, reordered>>
vars == <<pc, sd, cd, ret, op, args, finder, exc, loadMode, lastSet, full,
          results, reordered>>

(***************************************************************************)
(* Bounds of the model.                                                    *)
(***************************************************************************)
\* longest string over the full alphabet given to SingleDomain()
MaxLen == 5
\* longest string over the letters/dot/hyphen alphabet given to SingleDomain()
MaxDotLen == 10
\* longest domain and pattern compared by SingleDomain.match
MaxPatLen == 3
\* most entries in the domains argument of DomainFinder
MaxCatalog == 3

(***************************************************************************)
(* Characters and strings.                                                 *)
(***************************************************************************)
NL == "\n"
Lower == {"a","b","c","d","e","f","g","h","i","j","k","l","m",
          "n","o","p","q","r","s","t","u","v","w","x","y","z"}
Digit == {"0","1","2","3","4","5","6","7","8","9"}
\* the class [a-z0-9] of _re_pattern
AlNum == Lower \cup Digit
\* the class [a-z0-9-] of _re_pattern
AlNumHyphen == AlNum \cup {"-"}
\* the {0,61} repetition of _re_pattern
InnerMax == 61

None == [kind |-> "None", val |-> {}]

StringsUpTo(alphabet, n) == UNION {[1..k -> alphabet] : k \in 0..n}

\* str.count(".")
CountDots(s) == Cardinality({i \in 1..Len(s) : s[i] = "."})

(***************************************************************************)
(* scheme_builder and the censoring-character containers.                  *)
(* A censored_chars value is [kind, val]: kind "list" with val the set of  *)
(* its elements (strings), kind "str" with val = {the string}, or None.    *)
(***************************************************************************)
CharList(chars) == [kind |-> "list", val |-> chars]
CharStr(s) == [kind |-> "str", val |-> {s}]

\* `char in censored_chars` for a one-character string char
CharIn(c, cc) ==
    IF cc.kind = "str"
    THEN \E s \in cc.val : \E i \in 1..Len(s) : s[i] = c
    ELSE <<c>> \in cc.val

scheme_builder(domain, censored_chars) ==
    [x \in {i \in 0..(Len(domain) - 1) : ~CharIn(domain[i + 1], censored_chars)}
        |-> domain[x + 1]]

\* CensoredDomain(domain, censored_chars).__post_init__
CensoredDomain(domain, censored_chars) ==
    [domain |-> domain,
     censored_chars |-> censored_chars,
     scheme |-> scheme_builder(domain, censored_chars)]

\* CensoredDomain.__len__
CensoredLen(c) == Len(c.domain)

(***************************************************************************)
(* re.match(_re_pattern, string):                                          *)
(*   ^(?:[a-z0-9](?:[a-z0-9-]{0,61}[a-z0-9])?\.)+                          *)
(*    [a-z0-9][a-z0-9-]{0,61}[a-z0-9]$                                     *)
(***************************************************************************)
\* s[i..j] matches [a-z0-9-]{0,61}
InnerMatch(s, i, j) ==
    /\ j - i + 1 <= InnerMax
    /\ \A k \in i..j : s[k] \in AlNumHyphen

\* s[i..j] matches [a-z0-9](?:[a-z0-9-]{0,61}[a-z0-9])?
LabelMatch(s, i, j) ==
    /\ i <= j
    /\ s[i] \in AlNum
    /\ \/ j = i
       \/ /\ s[j] \in AlNum
          /\ InnerMatch(s, i + 1, j - 1)

\* s[i..j] matches [a-z0-9][a-z0-9-]{0,61}[a-z0-9]
LastLabelMatch(s, i, j) ==
    /\ i < j
    /\ s[i] \in AlNum
    /\ s[j] \in AlNum
    /\ InnerMatch(s, i + 1, j - 1)

\* the positions at which the group (?:label\.)+ can end when it starts at i
RECURSIVE GroupEnds(_, _)
GroupEnds(s, i) ==
    LET once == {j + 2 : j \in {k \in i..(Len(s) - 1) :
                                  LabelMatch(s, i, k) /\ s[k + 1] = "."}}
    IN  once \cup UNION {GroupEnds(s, p) : p \in once}

\* `$` without re.MULTILINE: the end of the string, or just before a final newline
AtDollar(s, p) ==
    \/ p = Len(s) + 1
    \/ p = Len(s) /\ s[Len(s)] = NL

rematch(s) ==
    \E p \in GroupEnds(s, 1) : \E j \in p..Len(s) :
        LastLabelMatch(s, p, j) /\ AtDollar(s, j + 1)

(***************************************************************************)
(* SingleDomain.                                                           *)
(***************************************************************************)
\* the dot-count test of __post_init__: 0 < count(".") < 4
DotCountOk(domain) == 0 < CountDots(domain) /\ CountDots(domain) < 4

\* the validity __post_init__ computes when valid is None
ComputeValid(domain) ==
    IF DotCountOk(domain) THEN rematch(domain) ELSE FALSE

\* SingleDomain(domain, valid).__post_init__ ; valid is "None", TRUE or FALSE
SingleDomain(domain, valid) ==
    [domain |-> domain,
     valid  |-> IF valid = "None" THEN ComputeValid(domain) ELSE valid = "True",
     lenght |-> Len(domain),
     scheme |-> scheme_builder(domain, CharList({}))]

Min(S) == CHOOSE x \in S : \A y \in S : x <= y

\* the positions of the pattern's scheme at which the loop of match stops:
\* the key is missing from self.scheme, or the characters differ
StopKeys(self, censored_domain) ==
    {k \in DOMAIN censored_domain.scheme :
        \/ k \notin DOMAIN self.scheme
        \/ self.scheme[k] # censored_domain.scheme[k]}

\* the for/else of SingleDomain.match, keys visited in increasing order
SchemeLoop(self, censored_domain) ==
    LET stop == StopKeys(self, censored_domain)
    IN  IF stop = {} THEN "True"
        ELSE IF Min(stop) \notin DOMAIN self.scheme THEN "KeyError"
        ELSE "False"

\* (mutant) match without its length test
LenghtUnchecked(self, censored_domain) == TRUE

\* the length test of SingleDomain.match
LenghtEqual(self, censored_domain) ==
    CensoredLen(censored_domain) = self.lenght

\* SingleDomain.match: "True", "False" or the exception raised
SingleMatch(self, censored_domain) ==
    IF LenghtEqual(self, censored_domain)
    THEN SchemeLoop(self, censored_domain)
    ELSE "False"

(***************************************************************************)
(* Constructing a SingleDomain from a string (SpecValidity), and comparing *)
(* a SingleDomain with a CensoredDomain (SpecMatch).                       *)
(***************************************************************************)
\* the strings given to SingleDomain(): short ones over every class of
\* character, longer ones over letters, dots and hyphens (4 dots need 10)
ValidityInputs ==
    StringsUpTo({"a", "0", "-", ".", "A", NL}, MaxLen)
        \cup StringsUpTo({"a", ".", "-"}, MaxDotLen)

MatchAlphabet == {"a", "b", "*"}
MatchInputs == StringsUpTo(MatchAlphabet, MaxPatLen)
CensoredChoices ==
    {CharList({}), CharList({<<"*">>}), CharList({<<"*">>, <<"a">>}),
     CharStr(<<"*", "b">>)}

\* before anything is constructed or called
NoQuery ==
    [domain |-> <<>>, censored_chars |-> None, scheme |-> <<>>, type |-> "none"]
NoReturn == [kind |-> "none", val |-> <<>>]
NoDomains == [isNone |-> TRUE, items |-> <<>>]
NoArgs ==
    [via |-> "none", domains |-> NoDomains, censoring_chars |-> None,
     content |-> <<>>]
NoFinder ==
    [domains |-> <<>>, hasDomains |-> FALSE, censoring_chars |-> None,
     keep_only_valid_domains |-> FALSE]

Init ==
    /\ pc = "start"
    /\ sd = "none"
    /\ cd = NoQuery
    /\ ret = NoReturn
    /\ op = "none"
    /\ args = NoArgs
    /\ finder = NoFinder
    /\ exc = "none"
    /\ loadMode = "none"
    /\ lastSet = [called |-> FALSE, given |-> <<>>, chars |-> None]
    /\ full = FALSE
    /\ results = <<>>
    /\ reordered = FALSE

\* SingleDomain(s): valid left to __post_init__
NewSingleDomain ==
    /\ pc = "start"
    /\ \E s \in ValidityInputs : sd' = SingleDomain(s, "None")
    /\ pc' = "built"
    /\ ret' = "None"
    /\ UNCHANGED <<cd, finderVars>>

\* SingleDomain(s, valid): valid forced by the caller
NewSingleDomainForced ==
    /\ pc = "start"
    /\ \E s \in MatchInputs, v \in {"True", "False"} :
          /\ sd' = SingleDomain(s, v)
          /\ ret' = v
    /\ pc' = "built"
    /\ UNCHANGED <<cd, finderVars>>

NextValidity == NewSingleDomain \/ NewSingleDomainForced

SpecValidity == Init /\ [][NextValidity]_vars

\* D = SingleDomain(s) or SingleDomain(s, valid)
NewDomain ==
    /\ pc = "start"
    /\ \E s \in MatchInputs, v \in {"None", "True", "False"} :
          sd' = SingleDomain(s, v)
    /\ pc' = "domain"
    /\ UNCHANGED <<cd, ret, finderVars>>

\* P = CensoredDomain(p, cc)
NewPattern ==
    /\ pc = "domain"
    /\ \E p \in MatchInputs, cc \in CensoredChoices :
          cd' = CensoredDomain(p, cc)
    /\ pc' = "pattern"
    /\ UNCHANGED <<sd, ret, finderVars>>

\* D.match(P)
DoSingleMatch ==
    /\ pc = "pattern"
    /\ ret' = SingleMatch(sd, cd)
    /\ pc' = "matched"
    /\ UNCHANGED <<sd, cd, finderVars>>

NextMatch == NewDomain \/ NewPattern \/ DoSingleMatch

SpecMatch == Init /\ [][NextMatch]_vars

(***************************************************************************)
(* C1                                                                      *)
(***************************************************************************)
\* position i (1-based) of the pattern holds a censoring character
Censored(c, i) == CharIn(c.domain[i], c.censored_chars)

AgreeOnVisible(d, c) ==
    /\ Len(d.domain) = Len(c.domain)
    /\ \A i \in 1..Len(c.domain) :
          ~Censored(c, i) => d.domain[i] = c.domain[i]

\* C1: SingleDomain.match(P) returns, without raising, True exactly when D and
\* P have the same length and D carries P's character at every position of P
\* that is not a censoring character; it returns False in every other case,
\* in particular whenever the lengths differ.
C1_MatchIffLengthAndVisibleAgree ==
    pc = "matched" =>
        /\ ret \in {"True", "False"}
        /\ (ret = "True") <=> AgreeOnVisible(sd, cd)
        /\ Len(sd.domain) # Len(cd.domain) => ret = "False"

\* a match that rests on a censored position: D and P differ there
C1_Witness ==
    /\ pc = "matched"
    /\ ret = "True"
    /\ sd.domain # cd.domain
    /\ DOMAIN cd.scheme # {}

(***************************************************************************)
(* C6                                                                      *)
(***************************************************************************)
\* the labels of s, as (first, last) positions: the pieces between the dots
LabelSpans(s) ==
    LET dots == {i \in 1..Len(s) : s[i] = "."}
        firsts == {1} \cup {d + 1 : d \in dots}
        lastOf(a) == IF \E d \in dots : d >= a
                     THEN Min({d \in dots : d >= a}) - 1
                     ELSE Len(s)
    IN  {<<a, lastOf(a)>> : a \in firsts}

LabelOk(s, a, b) ==
    /\ a <= b
    /\ b - a + 1 <= 63
    /\ \A k \in a..b : s[k] \in Lower \cup Digit \cup {"-"}
    /\ s[a] # "-"
    /\ s[b] # "-"

\* the grammar the claim states
GrammarValid(s) ==
    /\ CountDots(s) \in 1..3
    /\ \A sp \in LabelSpans(s) :
          /\ LabelOk(s, sp[1], sp[2])
          /\ sp[2] = Len(s) => sp[2] - sp[1] + 1 >= 2

\* C6: the validity computed for a Domain built without a forced valid flag
\* is true exactly when the string has 1 to 3 dots and is made of
\* dot-separated labels of 1-63 lowercase letters, digits and hyphens, none
\* starting or ending with a hyphen, the last of at least 2 characters.
C6_ValidIffGrammar ==
    (pc = "built" /\ ret = "None") => (sd.valid <=> GrammarValid(sd.domain))

(***************************************************************************)
(* DomainFinder: helpers.                                                  *)
(***************************************************************************)
\* str.split(sep): the pieces of s between the occurrences of the character sep
RECURSIVE Split(_, _)
Split(s, sep) ==
    IF \E i \in 1..Len(s) : s[i] = sep
    THEN LET i == Min({k \in 1..Len(s) : s[k] = sep})
         IN  <<SubSeq(s, 1, i - 1)>> \o Split(SubSeq(s, i + 1, Len(s)), sep)
    ELSE <<s>>

\* query.split("@")[-1]
AfterLastAt(query) ==
    LET parts == Split(query, "@") IN parts[Len(parts)]

\* strcontent.startswith("[")
StartsWithBracket(strcontent) ==
    Len(strcontent) > 0 /\ strcontent[1] = "["

\* JSON whitespace
JsonWs == {" ", NL, "\t", "\r"}

\* the first position at or after i that holds no JSON whitespace
RECURSIVE SkipWs(_, _)
SkipWs(s, i) ==
    IF i <= Len(s) /\ s[i] \in JsonWs THEN SkipWs(s, i + 1) ELSE i

JsonError == [ok |-> FALSE, datas |-> <<>>]

\* the elements of a JSON array of strings, from the opening quote at i on;
\* the strings of the model hold no escape
RECURSIVE JsonElems(_, _, _)
JsonElems(s, i, acc) ==
    IF i > Len(s) \/ s[i] # "\"" THEN JsonError
    ELSE IF ~\E k \in (i + 1)..Len(s) : s[k] = "\"" THEN JsonError
    ELSE LET k == Min({m \in (i + 1)..Len(s) : s[m] = "\""})
             elem == SubSeq(s, i + 1, k - 1)
             j == SkipWs(s, k + 1)
         IN  IF \E m \in 1..Len(elem) : elem[m] \in {NL, "\t", "\r"}
             THEN JsonError
             ELSE IF j > Len(s) THEN JsonError
             ELSE IF s[j] = ","
                  THEN JsonElems(s, SkipWs(s, j + 1), Append(acc, elem))
             ELSE IF s[j] = "]" /\ SkipWs(s, j + 1) > Len(s)
                  THEN [ok |-> TRUE, datas |-> Append(acc, elem)]
             ELSE JsonError

\* json.loads on a content that is to be an array of strings
JsonLoads(s) ==
    LET i == SkipWs(s, 1)
    IN  IF i > Len(s) \/ s[i] # "[" THEN JsonError
        ELSE LET j == SkipWs(s, i + 1)
             IN  IF j <= Len(s) /\ s[j] = "]"
                 THEN IF SkipWs(s, j + 1) > Len(s)
                      THEN [ok |-> TRUE, datas |-> <<>>]
                      ELSE JsonError
                 ELSE JsonElems(s, j, <<>>)

\* the branch of loads: "json" or "lines"
LoadsMode(strcontent) ==
    IF StartsWithBracket(strcontent) THEN "json" ELSE "lines"

\* truthiness of a censoring_chars value: None, "" and [] are falsy
Truthy(cc) ==
    /\ cc.kind # "None"
    /\ cc.kind = "str" => cc.val # {<<>>}
    /\ cc.kind = "list" => cc.val # {}

\* censoring_chars or "*"
OrStar(cc) == IF Truthy(cc) THEN cc ELSE CharStr(<<"*">>)

\* list(chars) for one positional argument: the characters of a str, the
\* elements of any other iterable
ListOf(chars) ==
    IF chars.kind = "str"
    THEN UNION {{<<s[i]>> : i \in 1..Len(s)} : s \in chars.val}
    ELSE chars.val

\* the body of change_censoring_chars(*censoring_chars): the new
\* self.censoring_chars, list(set(result)) kept as the set of its elements
NormalizeChars(censoring_chars) ==
    LET given == IF censoring_chars = <<>>
                 THEN <<CharStr(<<"*">>)>>
                 ELSE censoring_chars
    IN  CharList(UNION {ListOf(given[i]) : i \in DOMAIN given})

\* whether def change_censoring_chars(self, *censoring_chars) can be called
\* with these keyword arguments: it declares no parameter a keyword can bind
AcceptsKeywords(kwnames) == kwnames = {}

\* SingleDomain(d) if isinstance(d, str) else d, for every d of domains
WrapAll(items) ==
    [i \in DOMAIN items |-> SingleDomain(items[i].domain, items[i].valid)]

\* (mutant) the filter keeps every entry
OnlyValidKeepsAll(doms) == doms

\* [domain for domain in self.domains if domain.valid is True]
OnlyValid(doms) == SelectSeq(doms, LAMBDA d : d.valid)

\* (mutant) `not self.domains`: an empty list counts as missing
DomainsMissingOrEmpty(domains) == domains.isNone \/ domains.items = <<>>

\* `self.domains is None` of __post_init__
DomainsMissing(domains) == domains.isNone

\* the fields and the outcome of DomainFinder(domains, censoring_chars,
\* keep_only_valid_domains): __init__ stores the arguments, __post_init__
\* checks and filters domains and calls
\* self.change_censoring_chars(censoring_chars=...)
Construct(domains, censoring_chars, keep) ==
    IF DomainsMissing(domains)
    THEN [exc |-> "ValueError",
          finder |-> [domains |-> <<>>, hasDomains |-> FALSE,
                      censoring_chars |-> censoring_chars,
                      keep_only_valid_domains |-> keep]]
    ELSE LET wrapped == WrapAll(domains.items)
             kept == IF keep THEN OnlyValid(wrapped) ELSE wrapped
         IN  IF AcceptsKeywords({"censoring_chars"})
             THEN [exc |-> "none",
                   finder |-> [domains |-> kept, hasDomains |-> TRUE,
                               censoring_chars |->
                                   NormalizeChars(<<OrStar(censoring_chars)>>),
                               keep_only_valid_domains |-> keep]]
             ELSE [exc |-> "TypeError",
                   finder |-> [domains |-> kept, hasDomains |-> TRUE,
                               censoring_chars |-> censoring_chars,
                               keep_only_valid_domains |-> keep]]

\* (mutant) results kept in the order the coroutines finish
GatherStoreInFinishOrder(res, i, v) ==
    [res EXCEPT ![Min({j \in DOMAIN res : res[j] = "pending"})] = v]

\* gather stores the i-th coroutine's result in the i-th slot
GatherStore(res, i, v) == [res EXCEPT ![i] = v]

\* d[k] = v on a dict kept as the sequence of its (key, value) items: a key
\* already present keeps its place and takes the new value.  Keys are
\* SingleDomain objects, equal when domain and valid are equal.
SameKey(a, b) == a.domain = b.domain /\ a.valid = b.valid

\* (mutant) every assignment adds an item, equal keys included
DictSetAlwaysAdds(d, k, v) == Append(d, <<k, v>>)

DictSet(d, k, v) ==
    IF \E i \in DOMAIN d : SameKey(d[i][1], k)
    THEN [i \in DOMAIN d |-> IF SameKey(d[i][1], k) THEN <<d[i][1], v>> ELSE d[i]]
    ELSE Append(d, <<k, v>>)

\* dict(zip(keys, values))
RECURSIVE DictZip(_, _, _)
DictZip(keys, values, n) ==
    IF n = 0 THEN <<>>
    ELSE DictSet(DictZip(keys, values, n - 1), keys[n], values[n])

\* [key for key, value in results.items() if value is True]
TrueKeys(d) ==
    LET hits == SelectSeq(d, LAMBDA kv : kv[2] = "True")
    IN  [i \in DOMAIN hits |-> hits[i][1]]

(***************************************************************************)
(* DomainFinder: the inputs of the model.                                  *)
(***************************************************************************)
sABC == <<"a", ".", "b", "c">>
sBBC == <<"b", ".", "b", "c">>
sAB == <<"a", "b">>

\* the entries a caller puts in domains: plain strings (valid "None") and
\* SingleDomain objects built with a forced valid
ItemPool ==
    {[domain |-> sABC, valid |-> "None"],
     [domain |-> sBBC, valid |-> "None"],
     [domain |-> sAB, valid |-> "None"],
     [domain |-> sABC, valid |-> "False"]}

DomainsArgs ==
    {NoDomains} \cup
    {[isNone |-> FALSE, items |-> its] :
        its \in UNION {[1..n -> ItemPool] : n \in 0..MaxCatalog}}

\* the censoring_chars argument of the constructor
CtorChars == {None, CharStr(<<"*", "?">>)}

\* the contents given to loads
ContentPool ==
    {<<"[", "\"">> \o sABC \o <<"\"", ",", "\"">> \o sAB \o <<"\"", "]">>,
     <<" ", "[", "\"">> \o sABC \o <<"\"", "]">>,
     <<"[", "\"">> \o sBBC \o <<"\"", "]", NL>>,
     sABC \o <<NL>> \o sBBC,
     sABC \o <<NL>>,
     <<"[">> \o sABC,
     <<>>}

\* the positional arguments of change_censoring_chars
ChangeArgs ==
    {<<>>,
     <<CharStr(<<"?">>)>>,
     <<CharStr(<<"a", "b">>), CharStr(<<"c">>)>>,
     <<CharList({<<"a", "b">>, <<"c">>})>>,
     <<CharList({<<"*">>}), CharStr(<<"?", "?">>)>>}

\* the queries given to match: str, CensoredDomain, or anything else
Queries ==
    {[type |-> "str", domain |-> <<"a", ".", "*", "*">>, censored_chars |-> None],
     [type |-> "str", domain |-> <<"x", "@", "?", ".", "b", "c">>,
      censored_chars |-> None],
     [type |-> "str", domain |-> <<"a", "b">>, censored_chars |-> None],
     [type |-> "CensoredDomain", domain |-> <<"?", ".", "b", "c">>,
      censored_chars |-> CharList({<<"?">>})],
     [type |-> "int", domain |-> <<>>, censored_chars |-> None]}

(***************************************************************************)
(* DomainFinder: the operations.                                           *)
(* Constructing a finder always ends in an exception (Construct), so the   *)
(* methods are called on the instance as __post_init__ left it when it     *)
(* raised: the one a caller holds who made it with __new__ and then ran    *)
(* __init__.                                                               *)
(***************************************************************************)
Raised(e) == [kind |-> "exc", val |-> <<e>>]

\* DomainFinder(domains = d, censoring_chars = c, keep_only_valid_domains = k)
NewFinder ==
    /\ pc = "start"
    /\ \E d \in DomainsArgs, c \in CtorChars, k \in BOOLEAN :
          LET r == Construct(d, c, k)
          IN  /\ finder' = r.finder
              /\ exc' = r.exc
              /\ pc' = IF r.finder.hasDomains THEN "idle" ELSE "failed"
              /\ args' = [via |-> "init", domains |-> d, censoring_chars |-> c,
                          content |-> <<>>]
    /\ op' = "construct"
    /\ ret' = NoReturn
    /\ UNCHANGED <<sd, cd, loadMode, lastSet, full, results, reordered>>

\* the list loads reads from its content, or the failure of json.loads
LoadsDatas(strcontent) ==
    IF LoadsMode(strcontent) = "json"
    THEN JsonLoads(strcontent)
    ELSE [ok |-> TRUE, datas |-> Split(strcontent, NL)]

\* DomainFinder.loads(strcontent, censoring_chars = c); load and
\* load_default hand the text of a file to it
Loads ==
    /\ pc = "start"
    /\ \E strcontent \in ContentPool, c \in {CharStr(<<"*">>), CharStr(<<"*", "?">>)} :
          LET read == LoadsDatas(strcontent)
              d == [isNone |-> FALSE,
                    items |-> [i \in DOMAIN read.datas |->
                                  [domain |-> read.datas[i], valid |-> "None"]]]
              r == Construct(d, c, TRUE)
          IN  /\ loadMode' = LoadsMode(strcontent)
              /\ args' = [via |-> "loads", domains |-> d, censoring_chars |-> c,
                          content |-> strcontent]
              /\ IF read.ok
                 THEN /\ finder' = r.finder
                      /\ exc' = r.exc
                      /\ pc' = "idle"
                 ELSE /\ finder' = finder
                      /\ exc' = "JSONDecodeError"
                      /\ pc' = "failed"
    /\ op' = "loads"
    /\ ret' = NoReturn
    /\ UNCHANGED <<sd, cd, lastSet, full, results, reordered>>

\* finder.change_censoring_chars(*a)
ChangeCensoringChars ==
    /\ pc = "idle"
    /\ \E a \in ChangeArgs :
          /\ finder' = [finder EXCEPT !.censoring_chars = NormalizeChars(a)]
          /\ lastSet' = [called |-> TRUE, given |-> a, chars |-> NormalizeChars(a)]
    /\ op' = "change"
    /\ ret' = NoReturn
    /\ cd' = NoQuery
    /\ full' = FALSE
    /\ results' = <<>>
    /\ reordered' = FALSE
    /\ UNCHANGED <<pc, sd, args, exc, loadMode>>

\* the first lines of match: the query as a CensoredDomain (with the type
\* the caller gave), or the exception.  A str query is built with
\* self.censoring_chars; when that is None, scheme_builder raises TypeError
\* at the first character it tests.
QueryOf(query, censoring_chars) ==
    IF query.type = "str"
    THEN LET domain == AfterLastAt(query.domain)
         IN  IF censoring_chars.kind = "None" /\ domain # <<>>
             THEN [exc |-> "TypeError",
                   cd |-> [NoQuery EXCEPT !.type = "str", !.domain = domain]]
             ELSE [exc |-> "none",
                   cd |-> CensoredDomain(domain, censoring_chars)
                              @@ [type |-> "str"]]
    ELSE IF query.type = "CensoredDomain"
    THEN [exc |-> "none",
          cd |-> CensoredDomain(query.domain, query.censored_chars)
                     @@ [type |-> "CensoredDomain"]]
    ELSE [exc |-> "TypeError", cd |-> [NoQuery EXCEPT !.type = query.type]]

\* finder.match(q, full = f), up to the call of gather: one coroutine per
\* catalog entry, none of them run yet
MatchCall ==
    /\ pc = "idle"
    /\ \E q \in Queries, f \in BOOLEAN :
          LET r == QueryOf(q, finder.censoring_chars)
          IN  /\ full' = f
              /\ cd' = r.cd
              /\ IF r.exc = "none"
                 THEN /\ pc' = "gather"
                      /\ results' = [i \in 1..Len(finder.domains) |-> "pending"]
                      /\ ret' = NoReturn
                      /\ op' = "match_call"
                 ELSE /\ pc' = "idle"
                      /\ results' = <<>>
                      /\ ret' = Raised(r.exc)
                      /\ op' = "match_raise"
    /\ reordered' = FALSE
    /\ UNCHANGED <<sd, args, finder, exc, loadMode, lastSet>>

\* one coroutine domain.match(censored_domain = query) runs to its end; the
\* event loop may take them in any order
TaskRun ==
    /\ pc = "gather"
    /\ \E i \in DOMAIN results :
          /\ results[i] = "pending"
          /\ results' = GatherStore(results, i, SingleMatch(finder.domains[i], cd))
          /\ reordered' = (reordered \/ \E j \in 1..(i - 1) : results[j] = "pending")
    /\ op' = "task"
    /\ UNCHANGED <<pc, sd, cd, ret, args, finder, exc, loadMode, lastSet, full>>

\* gather is done: the rest of match
MatchReturn ==
    /\ pc = "gather"
    /\ \A i \in DOMAIN results : results[i] # "pending"
    /\ LET d == DictZip(finder.domains, results, Len(results))
       IN  ret' = IF \E i \in DOMAIN results : results[i] = "KeyError"
                  THEN Raised("KeyError")
                  ELSE IF full THEN [kind |-> "dict", val |-> d]
                  ELSE [kind |-> "list", val |-> TrueKeys(d)]
    /\ pc' = "idle"
    /\ op' = "match_return"
    /\ UNCHANGED <<sd, cd, args, finder, exc, loadMode, lastSet, full, results,
                   reordered>>

Next ==
    \/ NewFinder
    \/ Loads
    \/ ChangeCensoringChars
    \/ MatchCall
    \/ TaskRun
    \/ MatchReturn

Spec == Init /\ [][Next]_vars

(***************************************************************************)
(* C2                                                                      *)
(***************************************************************************)
\* the individual comparison of catalog entry d with the query
Hit(d) == SingleMatch(d, cd) = "True"

\* the first place of entry d in the catalog
FirstIndex(d) == Min({i \in DOMAIN finder.domains : finder.domains[i] = d})

DistinctEntries ==
    {<<finder.domains[i].domain, finder.domains[i].valid>> :
        i \in DOMAIN finder.domains}

AllCharsGiven(given) ==
    IF given = <<>> THEN {<<"*">>}
    ELSE UNION {UNION {{<<s[k]>> : k \in 1..Len(s)} : s \in given[i].val} :
                  i \in DOMAIN given}

\* C5: after change_censoring_chars the censoring alphabet holds single
\* characters only: every string given, wherever it stands in the input, is
\* decomposed into its characters.
C5_AlphabetIsSingleChars ==
    op = "change" =>
        /\ \A s \in finder.censoring_chars.val : Len(s) = 1
        /\ finder.censoring_chars.val = AllCharsGiven(lastSet.given)

(***************************************************************************)
(* C7                                                                      *)
(***************************************************************************)
\* the whitespace str.strip() removes
PyWs == {" ", NL, "\t", "\r"}

RECURSIVE Strip(_)
Strip(s) ==
    IF s # <<>> /\ s[1] \in PyWs THEN Strip(Tail(s))
    ELSE IF s # <<>> /\ s[Len(s)] \in PyWs THEN Strip(SubSeq(s, 1, Len(s) - 1))
    ELSE s

\* C7: loads reads its content as a JSON array exactly when the content,
\* trimmed of surrounding whitespace, starts with "[".
C7_JsonIffTrimmedStartsWithBracket ==
    op = "loads" =>
        (loadMode = "json" <=> StartsWithBracket(Strip(args.content)))

(***************************************************************************)
(* C8                                                                      *)
(***************************************************************************)
\* C8 as stated: a missing (None) or empty domains argument fails with the
\* ValueError about "domains".
C8_MissingOrEmptyRaisesValueError ==
    (op = "construct" /\ (args.domains.isNone \/ args.domains.items = <<>>)) =>
        exc = "ValueError"

\* C8 as amended: construction fails with the ValueError about "domains",
\* leaving no usable finder, exactly when the domains argument is missing
\* (None); an empty list never raises it.
C8_ValueErrorIffDomainsNone ==
    op = "construct" =>
        /\ exc = "ValueError" <=> args.domains.isNone
        /\ exc = "ValueError" => pc = "failed" /\ ~finder.hasDomains

\* construction with domains = None
C8_Witness ==
    /\ op = "construct"
    /\ args.domains.isNone
    /\ exc = "ValueError"

(***************************************************************************)
(* C9                                                                      *)
(***************************************************************************)
\* C9: constructing a DomainFinder from a list of domains, directly or
\* through loads, completes without raising, and its censoring_chars is the
\* normalized set of the characters given ({"*"} when none is given).
C9_ConstructionCompletes ==
    (/\ op \in {"construct", "loads"}
     /\ exc # "JSONDecodeError"
     /\ ~args.domains.isNone) =>
        /\ exc = "none"
        /\ finder.censoring_chars =
               NormalizeChars(<<OrStar(args.censoring_chars)>>)

(***************************************************************************)
(* C10                                                                     *)
(***************************************************************************)
\* the censoring set in force: the one the last change_censoring_chars call
\* set, or the one construction is to set
SetInForce ==
    IF lastSet.called THEN lastSet.chars
    ELSE NormalizeChars(<<OrStar(args.censoring_chars)>>)

C10_Step ==
    /\ op' \in {"match_call", "match_raise", "task", "match_return"} =>
          finder' = finder
    /\ (op' \in {"match_call", "match_raise"} /\ cd'.type = "str") =>
          /\ op' = "match_call"
          /\ cd'.scheme = scheme_builder(cd'.domain, SetInForce)
    /\ (op' \in {"match_call", "match_raise"} /\ cd'.type = "CensoredDomain") =>
          /\ op' = "match_call"
          /\ cd'.scheme = scheme_builder(cd'.domain, cd'.censored_chars)

\* C10: a plain-string query is read with the censoring set of the most
\* recent change_censoring_chars call, or of construction if there was none;
\* a CensoredDomain query is matched with its own censoring characters; and
\* match changes neither the catalog nor the censoring set of the finder.
C10_QueryUsesSetInForce == [][C10_Step]_vars

====
